---- MODULE Spec2Model ----
(***************************************************************************)
(* Model of src/tools/system_monitor.py (class SystemMonitor and main).    *)
(*                                                                         *)
(* Python integers are unbounded; a byte count is therefore held as a      *)
(* little-endian sequence of base-1024 limbs (<<512, 1>> is 1536).  A      *)
(* value that format_bytes has divided k times by 1024 is the pair         *)
(* [limbs, shift |-> k]: the limbs over 1024^k.  Percentages and           *)
(* megabytes that the code rounds to one decimal are held in tenths.       *)
(***************************************************************************)
EXTENDS Integers, Sequences, FiniteSets, TLC

VARIABLES
    mode,          \* how the program was entered: main()'s argv, or a direct method call
    pc,            \* position of the single thread of control
    HAS_PSUTIL,    \* module global set by the import at lines 13-17
    system,        \* self.system (platform.system())
    error,         \* exception that left the program unhandled, or "none"
    interrupted,   \* a SIGINT has been delivered to the process
    cpu_info,      \* monitor_once local
    memory_info,   \* monitor_once local
    partitions_ok, \* whether psutil.disk_partitions() works on this host
    mounts,        \* the host's mounted volumes with the outcome of each usage query
    disk_info,     \* monitor_once local / get_disk_info result
    pid_max,       \* the host's highest pid
    ncpu,          \* psutil.cpu_count()
    running,       \* pids alive in the OS process table
    baseline,      \* first pass: for each pid it enumerated, whether line 169 took its CPU baseline
    images,        \* what the second pass read for each pid it enumerated
    limit,         \* get_top_processes argument
    processes,     \* value returned by get_top_processes
    top_processes, \* display_processes local
    totals,        \* the Total: line printed by display_processes, or NoTotals
    bytes_value,   \* format_bytes argument
    formatted      \* format_bytes result

vars == <<mode, pc, HAS_PSUTIL, system, error, interrupted, cpu_info, memory_info,
          partitions_ok, mounts, disk_info, pid_max, ncpu, running, baseline, images, limit,
          processes, top_processes, totals, bytes_value, formatted>>

-----------------------------------------------------------------------------
(* Bounds of the model *)

MaxLimbs == 7
MaxPid == 3
MaxLimit == 3
MaxMounts == 3

-----------------------------------------------------------------------------
(* Small helpers *)

None == "None"
Unknown == "Unknown"
NoTotals == [printed |-> FALSE, cpu |-> 0, mem |-> 0]

Min(a, b) == IF a < b THEN a ELSE b

RECURSIVE SeqSum(_)
SeqSum(s) == IF s = <<>> THEN 0 ELSE Head(s) + SeqSum(Tail(s))

\* Python's round(): num/den to the nearest integer, ties to the even one.
RoundHalfEven(num, den) ==
    LET q == num \div den
        r == num % den
    IN  IF 2 * r < den THEN q
        ELSE IF 2 * r > den THEN q + 1
        ELSE IF q % 2 = 0 THEN q ELSE q + 1

-----------------------------------------------------------------------------
(* format_bytes, lines 215-220 *)

KiB == 1024

Units == <<"B", "KB", "MB", "GB", "TB">>

\* A Python int below 2^31 as limbs.
RECURSIVE ToLimbs(_)
ToLimbs(n) == IF n = 0 THEN <<>> ELSE <<n % KiB>> \o ToLimbs(n \div KiB)

\* The comparison of line 217 written bytes_value <= 1024.
LessOrEqualKiB(v) ==
    \/ \A j \in 1..Len(v.limbs) : j >= v.shift + 2 => v.limbs[j] = 0
    \/ /\ Len(v.limbs) >= v.shift + 2
       /\ v.limbs[v.shift + 2] = 1
       /\ \A j \in 1..Len(v.limbs) : j # v.shift + 2 => v.limbs[j] = 0

\* bytes_value < 1024 (line 217), for the value limbs / 1024^shift.
LessThanKiB(v) ==
    \A j \in 1..Len(v.limbs) : j >= v.shift + 2 => v.limbs[j] = 0

\* a <= b as numbers
LimbsLeq(a, b) ==
    LET n == IF Len(a) > Len(b) THEN Len(a) ELSE Len(b)
        at(x, j) == IF j <= Len(x) THEN x[j] ELSE 0
    IN  \/ \A j \in 1..n : at(a, j) = at(b, j)
        \/ \E j \in 1..n : /\ at(a, j) < at(b, j)
                           /\ \A m \in (j + 1)..n : at(a, m) = at(b, m)

\* The smallest integer whose quotient by 1024 rounds beyond the largest
\* float, 2^1034 - 2^980: Python's int / int raises OverflowError from
\* there on.
FloatLimit ==
    [j \in 1..104 |-> IF j <= 98 THEN 0 ELSE IF j <= 103 THEN 1023 ELSE 15]

\* Line 219 raises: bytes_value is still the int it came in as and its
\* quotient does not fit a float.
Overflows(v) ==
    /\ v.shift = 0
    /\ Len(v.limbs) >= Len(FloatLimit)
    /\ LimbsLeq(FloatLimit, v.limbs)

\* bytes_value /= 1024 (line 219)
DivKiB(v) == [limbs |-> v.limbs, shift |-> v.shift + 1]

\* floor of limbs / 1024^shift; callers keep it below 2^31.
RECURSIVE LimbsValue(_)
LimbsValue(l) == IF l = <<>> THEN 0 ELSE Head(l) + KiB * LimbsValue(Tail(l))

WholePart(v) ==
    IF Len(v.limbs) <= v.shift THEN 0
    ELSE LimbsValue(SubSeq(v.limbs, v.shift + 1, Len(v.limbs)))

FracLimbs(v) == SubSeq(v.limbs, 1, Min(v.shift, Len(v.limbs)))

\* Long multiplication of the fraction 0.l (l little-endian) by 20: the
\* integer part carried out of the top limb, and whether anything is left.
RECURSIVE Times20(_, _, _)
Times20(l, carry, rest) ==
    IF l = <<>> THEN [twentieths |-> carry, rest |-> rest]
    ELSE LET x == Head(l) * 20 + carry
         IN  Times20(Tail(l), x \div KiB, rest \/ (x % KiB # 0))

\* f"{bytes_value:.1f}" (lines 218, 220): the integer part and the one
\* decimal digit of the exact quotient, rounded half to even as Python's
\* float formatting does.
OneDecimal(v) ==
    LET m == Times20(FracLimbs(v), 0, FALSE)
        t == m.twentieths
        w == WholePart(v)
        fracTenths ==
            IF t % 2 = 0 THEN t \div 2
            ELSE IF m.rest THEN (t + 1) \div 2
            ELSE IF ((t - 1) \div 2) % 2 = 0 THEN (t - 1) \div 2 ELSE (t + 1) \div 2
    IN  IF fracTenths = 10 THEN [whole |-> w + 1, tenth |-> 0]
        ELSE [whole |-> w, tenth |-> fracTenths]

\* The loop of lines 216-219 from the unit at index i on, then line 220.
RECURSIVE FormatLoop(_, _)
FormatLoop(v, i) ==
    IF i > Len(Units) THEN [raised |-> "none", text |-> OneDecimal(v), unit |-> "PB"]
    ELSE IF LessThanKiB(v)
         THEN [raised |-> "none", text |-> OneDecimal(v), unit |-> Units[i]]
    ELSE IF Overflows(v)
         THEN [raised |-> "OverflowError", text |-> [whole |-> 0, tenth |-> 0], unit |-> "B"]
    ELSE FormatLoop(DivKiB(v), i + 1)

format_bytes(b) == FormatLoop([limbs |-> b, shift |-> 0], 1)

-----------------------------------------------------------------------------
(* Process names: Python strings as sequences of characters *)

UpperCase == <<"A", "B", "C", "D", "E", "F", "G", "H", "I", "J", "K", "L", "M",
               "N", "O", "P", "Q", "R", "S", "T", "U", "V", "W", "X", "Y", "Z">>
LowerCase == <<"a", "b", "c", "d", "e", "f", "g", "h", "i", "j", "k", "l", "m",
               "n", "o", "p", "q", "r", "s", "t", "u", "v", "w", "x", "y", "z">>

LowerChar(c) ==
    IF \E i \in 1..Len(UpperCase) : UpperCase[i] = c
    THEN LowerCase[CHOOSE i \in 1..Len(UpperCase) : UpperCase[i] = c]
    ELSE c

\* str.lower()
lower(s) == [i \in 1..Len(s) |-> LowerChar(s[i])]

\* str.endswith(suffix)
endswith(s, suffix) ==
    /\ Len(s) >= Len(suffix)
    /\ SubSeq(s, Len(s) - Len(suffix) + 1, Len(s)) = suffix

ExeSuffix == <<".", "e", "x", "e">>

\* Lines 182-183: name = name[:-4] when name.endswith('.exe').
StripExe(name) ==
    IF endswith(name, ExeSuffix) THEN SubSeq(name, 1, Len(name) - 4) ELSE name

\* Line 192: the list of system process names.
SystemNames == { <<"s", "y", "s", "t", "e", "m">>,
                 <<"s", "y", "s", "t", "e", "m", " ", "i", "d", "l", "e", " ", "p", "r", "o", "c", "e", "s", "s">>,
                 <<"s", "y", "s", "t", "e", "m", " ", "i", "n", "t", "e", "r", "r", "u", "p", "t", "s">> }

\* Line 192: name.lower() in [...]
IsSystemProcess(name) == lower(name) \in SystemNames

-----------------------------------------------------------------------------
(* What psutil hands the second pass for one process (proc.info, line 177). *)
(* cpu_percent is in tenths of a percent (psutil rounds it to one decimal), *)
(* rss in bytes.  denied holds the attributes psutil was refused and set to *)
(* None; gone marks a process that exited while it was being read           *)
(* (NoSuchProcess).  The                                                    *)
(* cpu_percent values are multiples of 0.5 and cpu_count a power of two, so *)
(* the quotient of line 189 is exact in binary floating point.              *)

MiB == 1048576

ProcImages ==
    { [name |-> <<"p", "y", "t", "h", "o", "n", ".", "e", "x", "e">>, cpu_percent |-> 10, rss |-> 1572864, denied |-> {}, gone |-> FALSE],
      [name |-> <<"b", "a", "s", "h">>, cpu_percent |-> 25, rss |-> 262144, denied |-> {}, gone |-> FALSE],
      [name |-> <<"S", "y", "s", "t", "e", "m", ".", "E", "X", "E">>, cpu_percent |-> 5, rss |-> 1048576, denied |-> {}, gone |-> FALSE],
      [name |-> <<"S", "y", "s", "t", "e", "m", " ", "I", "d", "l", "e", " ", "P", "r", "o", "c", "e", "s", "s">>, cpu_percent |-> 20, rss |-> 8192, denied |-> {}, gone |-> FALSE],
      [name |-> <<"s", "v", "c", "h", "o", "s", "t", ".", "e", "x", "e">>, cpu_percent |-> 5, rss |-> 0, denied |-> {"memory_info"}, gone |-> FALSE],
      [name |-> <<"p", "y", "t", "h", "o", "n", ".", "e", "x", "e">>, cpu_percent |-> 10, rss |-> 1572864, denied |-> {}, gone |-> TRUE] }

ProcessInfo(name, cpu_percent, memory_mb, pid) ==
    [name |-> name, cpu_percent |-> cpu_percent, memory_mb |-> memory_mb, pid |-> pid]

\* psutil.process_iter (lines 166, 177) yields the running processes sorted
\* by pid, whatever order the OS lists them in.
RECURSIVE ProcessIter(_)
ProcessIter(pids) ==
    IF pids = {} THEN <<>>
    ELSE LET p == CHOOSE x \in pids : \A y \in pids : x <= y
         IN  <<p>> \o ProcessIter(pids \ {p})

\* The body of the second loop, lines 178-203, for one process.  A process
\* without a baseline from the first pass reads cpu_percent 0.0.
ReadProcess(pid, img, hasBaseline, cpus) ==
    IF img.gone THEN [kind |-> "continue"]
    ELSE IF "name" \in img.denied THEN [kind |-> "raise", exc |-> "AttributeError"]
    ELSE IF "memory_info" \in img.denied THEN [kind |-> "raise", exc |-> "AttributeError"]
    ELSE IF "cpu_percent" \in img.denied THEN [kind |-> "raise", exc |-> "TypeError"]
    ELSE LET name == StripExe(img.name)
             memory_mb == RoundHalfEven(img.rss * 10, MiB)
             raw == IF hasBaseline THEN img.cpu_percent ELSE 0
             cpu_percent == RoundHalfEven(raw, cpus)
         IN  IF IsSystemProcess(name) THEN [kind |-> "continue"]
             ELSE [kind |-> "append",
                   info |-> ProcessInfo(name, cpu_percent, memory_mb, pid)]

\* Whether the first pass (lines 166-171) took the CPU baseline of pid.
HasBaseline(base, pid) == pid \in DOMAIN base /\ base[pid]

\* The second loop, lines 177-203, over the enumeration enum.
RECURSIVE SecondPassLoop(_, _, _, _, _)
SecondPassLoop(enum, imgs, base, cpus, acc) ==
    IF enum = <<>> THEN [raised |-> "none", processes |-> acc]
    ELSE LET r == ReadProcess(Head(enum), imgs[Head(enum)], HasBaseline(base, Head(enum)), cpus)
         IN  IF r.kind = "raise" THEN [raised |-> r.exc, processes |-> acc]
             ELSE IF r.kind = "append"
                  THEN SecondPassLoop(Tail(enum), imgs, base, cpus, Append(acc, r.info))
             ELSE SecondPassLoop(Tail(enum), imgs, base, cpus, acc)

\* list.sort(key=cpu_percent, reverse=True) (lines 206, 274): a stable sort,
\* equal keys keep their order.  InsertDesc puts x behind every element
\* whose key is at least x's.
RECURSIVE InsertDesc(_, _)
InsertDesc(s, x) ==
    IF s = <<>> THEN <<x>>
    ELSE IF Head(s).cpu_percent >= x.cpu_percent THEN <<Head(s)>> \o InsertDesc(Tail(s), x)
    ELSE <<x>> \o s

RECURSIVE Reverse(_)
Reverse(s) == IF s = <<>> THEN <<>> ELSE Append(Reverse(Tail(s)), Head(s))

RECURSIVE InsertAsc(_, _)
InsertAsc(s, x) ==
    IF s = <<>> THEN <<x>>
    ELSE IF Head(s).cpu_percent <= x.cpu_percent THEN <<Head(s)>> \o InsertAsc(Tail(s), x)
    ELSE <<x>> \o s

RECURSIVE SortAsc(_)
SortAsc(s) == IF s = <<>> THEN <<>> ELSE InsertAsc(SortAsc(SubSeq(s, 1, Len(s) - 1)), s[Len(s)])

\* The sort written as an ascending sort followed by a reversal, which
\* turns the order of equal keys around.
SortThenReverse(s) == Reverse(SortAsc(s))

RECURSIVE SortByCpuDesc(_)
SortByCpuDesc(s) ==
    IF s = <<>> THEN <<>>
    ELSE InsertDesc(SortByCpuDesc(SubSeq(s, 1, Len(s) - 1)), s[Len(s)])

\* s[:n] for n >= 0 (lines 207, 277)
Prefix(s, n) == SubSeq(s, 1, Min(n, Len(s)))

\* get_top_processes from line 177 on, given what the second pass reads.
SecondPassResult(pids, imgs, base, cpus, n) ==
    LET r == SecondPassLoop(ProcessIter(pids), imgs, base, cpus, <<>>)
    IN  IF r.raised # "none" THEN <<>>
        ELSE Prefix(SortByCpuDesc(r.processes), n)

DisplayLimit == 10
MonitorLimit == 10

-----------------------------------------------------------------------------
(* get_cpu_info, lines 27-80 *)

\* The dictionary a successful probe returns, lines 54-59 and 67.
CpuInfo(usage, logical, physical, freq, temp) ==
    LET info == [usage |-> usage, logical_cores |-> logical,
                 physical_cores |-> IF physical = 0 THEN logical ELSE physical,
                 frequency |-> freq]
    IN  IF temp = None THEN info
        ELSE [k \in DOMAIN info \cup {"temperature"} |->
                 IF k = "temperature" THEN temp ELSE info[k]]

\* The fallback dictionary, lines 76-80.
CpuFallback(cores) == [usage |-> Unknown, cores |-> cores, frequency |-> Unknown]

\* The try blocks of get_cpu_info a SIGINT can arrive in: the outer one
\* (lines 30-71) while it reads the usage, and the two inner ones when the
\* call gets that far.
CpuSignalPoints(has, usage) ==
    {"none"} \cup (IF has THEN {"usage"} ELSE {})
             \cup (IF has /\ ~usage.raises THEN {"frequency", "temperature"} ELSE {})

\* get_cpu_info: usage is what psutil.cpu_percent does (it raises, or gives
\* a value in tenths), physical what cpu_count(logical=False) gives (0 for
\* None), freq what the frequency query gives (None, a text, or "raise"),
\* temp what the Windows temperature query gives (None when it has no
\* reading, a text, or "raise").
get_cpu_info(has, sys, cores, usage, physical, freq, temp, sig) ==
    IF has /\ ~usage.raises /\ sig # "usage"
    THEN LET freq_str == IF freq = "raise" \/ sig = "frequency" \/ freq = None
                         THEN Unknown ELSE freq
             temperature == IF sys # "Windows" \/ temp = "raise" \/ sig = "temperature"
                            THEN None ELSE temp
         IN  CpuInfo(usage.value, cores, physical, freq_str, temperature)
    ELSE CpuFallback(cores)

\* The keys display_cpu_info reads, lines 247-251.
CpuKeysRead == {"usage", "physical_cores", "logical_cores", "frequency"}

-----------------------------------------------------------------------------
(* get_memory_info, lines 84-111 *)

\* One reading of psutil.virtual_memory() and psutil.swap_memory():
\* 8 GiB total, 3.5 GiB used, no swap.
MemoryReading ==
    [total |-> <<0, 0, 0, 8>>, available |-> <<0, 0, 512, 4>>, used |-> <<0, 0, 512, 3>>,
     percent |-> 438, swap_total |-> <<>>, swap_used |-> <<>>, swap_percent |-> 0]

MemoryFallback ==
    [total |-> Unknown, available |-> Unknown, used |-> Unknown, percent |-> Unknown,
     swap_total |-> Unknown, swap_used |-> Unknown, swap_percent |-> Unknown]

get_memory_info(has, ok, sig) ==
    IF has /\ ok /\ ~sig
    THEN [total |-> format_bytes(MemoryReading.total),
          available |-> format_bytes(MemoryReading.available),
          used |-> format_bytes(MemoryReading.used),
          percent |-> MemoryReading.percent,
          swap_total |-> format_bytes(MemoryReading.swap_total),
          swap_used |-> format_bytes(MemoryReading.swap_used),
          swap_percent |-> MemoryReading.swap_percent]
    ELSE MemoryFallback

-----------------------------------------------------------------------------
(* get_disk_info, lines 115-155 *)

\* What psutil.disk_usage does for one mount: it fails, or it returns the
\* totals in bytes.  A volume may report a total of 0 bytes.
MountKinds ==
    { [query |-> "ok", total |-> 10485760, used |-> 1572864, free |-> 8912896],
      [query |-> "ok", total |-> 0, used |-> 0, free |-> 0],
      [query |-> "error", total |-> 0, used |-> 0, free |-> 0] }

\* Device names, in the order psutil.disk_partitions() lists them.
Devices == <<"sda1", "sdb1", "sdc1", "sdd1", "sde1">>

\* The mount lists of at most n volumes.
RECURSIVE MountLists(_)
MountLists(n) ==
    IF n = 0 THEN {<<>>}
    ELSE LET shorter == MountLists(n - 1)
         IN  shorter \cup { Append(m, k) : m \in {x \in shorter : Len(x) = n - 1}, k \in MountKinds }

\* shutil.disk_usage of the working directory, line 143.
CwdUsage == [total |-> 10485760, used |-> 1572864, free |-> 8912896]

\* Lines 124-131 and 144-151.  percent is the exact quotient
\* used * 100 / total, kept as numerator and denominator.
DiskEntry(device, mountpoint, usage) ==
    [device |-> device, mountpoint |-> mountpoint,
     total |-> format_bytes(ToLimbs(usage.total)),
     used |-> format_bytes(ToLimbs(usage.used)),
     free |-> format_bytes(ToLimbs(usage.free)),
     percent |-> [num |-> usage.used * 100, den |-> usage.total]]

\* The loop of lines 121-133 from mount i on; sig is the index of the mount
\* whose query a SIGINT interrupts, 0 for none.  Whatever the inner try
\* raises, a failed query, the division by a zero total of line 130 or the
\* interrupt, goes to the except of line 132.
RECURSIVE PartitionLoop(_, _, _, _)
PartitionLoop(mnts, i, sig, acc) ==
    IF i > Len(mnts) THEN acc
    ELSE IF mnts[i].query # "ok" \/ mnts[i].total = 0 \/ sig = i
         THEN PartitionLoop(mnts, i + 1, sig, acc)
    ELSE PartitionLoop(mnts, i + 1, sig, Append(acc, DiskEntry(Devices[i], Devices[i], mnts[i])))

\* Lines 118-135: the list built from psutil's partitions.
PartitionsPhase(has, listing, mnts, sig) ==
    IF has /\ listing /\ sig.at # "partitions"
    THEN PartitionLoop(mnts, 1, IF sig.at = "usage" THEN sig.index ELSE 0, <<>>)
    ELSE <<>>

\* get_disk_info: listing is whether psutil.disk_partitions() returned,
\* cwdOk whether shutil.disk_usage did; sig says where a SIGINT arrives:
\* at "none", "partitions" (line 120), "usage" (line 123, for the mount
\* sig.index) or "fallback" (lines 139-151).
get_disk_info(has, sys, listing, mnts, cwdOk, sig) ==
    LET first == PartitionsPhase(has, listing, mnts, sig)
    IN  IF first = <<>> /\ sys = "Windows" /\ cwdOk /\ sig.at # "fallback"
        THEN <<DiskEntry("C:", "cwd", CwdUsage)>>
        ELSE first

-----------------------------------------------------------------------------
(* Control flow *)

\* An exception leaves the current function.  monitor_continuous catches
\* KeyboardInterrupt (lines 327-328); nothing else is caught above the
\* probes, so anything else ends the program.
Propagate(exc) ==
    IF exc = "KeyboardInterrupt" /\ mode = "continuous"
    THEN pc' = "stopped" /\ error' = "none"
    ELSE pc' = "crashed" /\ error' = exc

\* What psutil.cpu_percent, the frequency query and the temperature query
\* can do.
CpuUsages == { [raises |-> FALSE, value |-> 125], [raises |-> TRUE, value |-> 0] }
Frequencies == {"2400 MHz", None, "raise"}
Temperatures == {"45C", None, "raise"}

\* main, lines 331-344
Main ==
    /\ pc = "main"
    /\ pc' = IF mode = "continuous" THEN "clear" ELSE "header"
    /\ UNCHANGED <<mode, HAS_PSUTIL, system, error, interrupted, cpu_info, memory_info,
                   partitions_ok, mounts, disk_info, pid_max, ncpu, running, baseline, images, limit,
                   processes, top_processes, totals, bytes_value, formatted>>

\* monitor_continuous, line 323
ClearScreen ==
    /\ pc = "clear"
    /\ pc' = "header"
    /\ UNCHANGED <<mode, HAS_PSUTIL, system, error, interrupted, cpu_info, memory_info,
                   partitions_ok, mounts, disk_info, pid_max, ncpu, running, baseline, images, limit,
                   processes, top_processes, totals, bytes_value, formatted>>

\* monitor_once, line 301
DisplayHeader ==
    /\ pc = "header"
    /\ pc' = "cpu"
    /\ UNCHANGED <<mode, HAS_PSUTIL, system, error, interrupted, cpu_info, memory_info,
                   partitions_ok, mounts, disk_info, pid_max, ncpu, running, baseline, images, limit,
                   processes, top_processes, totals, bytes_value, formatted>>

\* monitor_once, line 303
GetCpuInfo ==
    /\ pc = "cpu"
    /\ \E usage \in CpuUsages, physical \in {0, 1}, freq \in Frequencies,
          temp \in Temperatures :
       \E sig \in CpuSignalPoints(HAS_PSUTIL, usage) :
          /\ cpu_info' = get_cpu_info(HAS_PSUTIL, system, ncpu, usage, physical, freq, temp, sig)
          /\ interrupted' = (interrupted \/ sig # "none")
    /\ pc' = "show_cpu"
    /\ UNCHANGED <<mode, HAS_PSUTIL, system, error, memory_info,
                   partitions_ok, mounts, disk_info, pid_max, ncpu, running, baseline, images, limit,
                   processes, top_processes, totals, bytes_value, formatted>>

\* display_cpu_info, lines 246-251: a key the dictionary lacks is a KeyError.
DisplayCpuInfo ==
    /\ pc = "show_cpu"
    /\ IF CpuKeysRead \subseteq DOMAIN cpu_info
       THEN pc' = "memory" /\ error' = error
       ELSE Propagate("KeyError")
    /\ UNCHANGED <<mode, HAS_PSUTIL, system, interrupted, cpu_info, memory_info,
                   partitions_ok, mounts, disk_info, pid_max, ncpu, running, baseline, images, limit,
                   processes, top_processes, totals, bytes_value, formatted>>

\* monitor_once, line 306
GetMemoryInfo ==
    /\ pc = "memory"
    /\ \E ok \in BOOLEAN, sig \in (IF HAS_PSUTIL THEN BOOLEAN ELSE {FALSE}) :
          /\ memory_info' = get_memory_info(HAS_PSUTIL, ok, sig)
          /\ interrupted' = (interrupted \/ sig)
    /\ pc' = "show_memory"
    /\ UNCHANGED <<mode, HAS_PSUTIL, system, error, cpu_info,
                   partitions_ok, mounts, disk_info, pid_max, ncpu, running, baseline, images, limit,
                   processes, top_processes, totals, bytes_value, formatted>>

\* display_memory_info, lines 255-259: every key it reads is in both
\* dictionaries.
DisplayMemoryInfo ==
    /\ pc = "show_memory"
    /\ pc' = "disk"
    /\ UNCHANGED <<mode, HAS_PSUTIL, system, error, interrupted, cpu_info, memory_info,
                   partitions_ok, mounts, disk_info, pid_max, ncpu, running, baseline, images, limit,
                   processes, top_processes, totals, bytes_value, formatted>>

NoSignal == [at |-> "none", index |-> 0]

\* The try blocks of get_disk_info a SIGINT can arrive in: those the call
\* enters.
DiskSignalPoints ==
    {NoSignal}
        \cup (IF HAS_PSUTIL THEN {[at |-> "partitions", index |-> 0]} ELSE {})
        \cup (IF HAS_PSUTIL /\ partitions_ok
              THEN {[at |-> "usage", index |-> i] : i \in 1..Len(mounts)} ELSE {})
        \cup (IF PartitionsPhase(HAS_PSUTIL, partitions_ok, mounts, NoSignal) = <<>>
              THEN {[at |-> "fallback", index |-> 0]} ELSE {})

\* monitor_once, line 309
GetDiskInfo ==
    /\ pc = "disk"
    /\ \E cwdOk \in BOOLEAN, sig \in DiskSignalPoints :
          /\ disk_info' = get_disk_info(HAS_PSUTIL, system, partitions_ok, mounts, cwdOk, sig)
          /\ interrupted' = (interrupted \/ sig.at # "none")
    /\ pc' = IF mode = "get_disk_info" THEN "done" ELSE "show_disk"
    /\ UNCHANGED <<mode, HAS_PSUTIL, system, error, cpu_info, memory_info,
                   partitions_ok, mounts, pid_max, ncpu, running, baseline, images, limit,
                   processes, top_processes, totals, bytes_value, formatted>>

\* display_disk_info, lines 263-267
DisplayDiskInfo ==
    /\ pc = "show_disk"
    /\ pc' = "first_pass"
    /\ UNCHANGED <<mode, HAS_PSUTIL, system, error, interrupted, cpu_info, memory_info,
                   partitions_ok, mounts, disk_info, pid_max, ncpu, running, baseline, images, limit,
                   processes, top_processes, totals, bytes_value, formatted>>

\* get_top_processes, lines 158-171: without psutil it returns the empty
\* list at once; otherwise the first pass takes the CPU baseline of every
\* running process that lets it.
FirstPass ==
    /\ pc = "first_pass"
    /\ IF ~HAS_PSUTIL
       THEN /\ processes' = <<>>
            /\ baseline' = baseline
            /\ pc' = "show_processes"
       ELSE /\ baseline' \in [running -> BOOLEAN]
            /\ processes' = processes
            /\ pc' = "sampling_wait"
    /\ UNCHANGED <<mode, HAS_PSUTIL, system, error, interrupted, cpu_info, memory_info,
                   partitions_ok, mounts, disk_info, pid_max, ncpu, running, images, limit,
                   top_processes, totals, bytes_value, formatted>>

\* get_top_processes, line 174: while the program sleeps, processes exit
\* and new ones start.
SamplingWait ==
    /\ pc = "sampling_wait"
    /\ \E exited \in SUBSET running, spawned \in SUBSET ((1..pid_max) \ running) :
          running' = (running \ exited) \cup spawned
    /\ pc' = "second_pass"
    /\ UNCHANGED <<mode, HAS_PSUTIL, system, error, interrupted, cpu_info, memory_info,
                   partitions_ok, mounts, disk_info, pid_max, ncpu, baseline, images, limit,
                   processes, top_processes, totals, bytes_value, formatted>>

\* get_top_processes, lines 177-211
SecondPass ==
    /\ pc = "second_pass"
    /\ \E imgs \in [running -> ProcImages] :
          /\ images' = imgs
          /\ processes' = SecondPassResult(running, imgs, baseline, ncpu, limit)
    /\ pc' = "show_processes"
    /\ UNCHANGED <<mode, HAS_PSUTIL, system, error, interrupted, cpu_info, memory_info,
                   partitions_ok, mounts, disk_info, pid_max, ncpu, running, baseline, limit,
                   top_processes, totals, bytes_value, formatted>>

\* display_processes, lines 271-295
DisplayProcesses ==
    /\ pc = "show_processes"
    /\ LET sorted == SortByCpuDesc(processes)
           shown == Prefix(sorted, DisplayLimit)
       IN  /\ processes' = sorted
           /\ top_processes' = shown
           /\ totals' = IF shown = <<>> THEN NoTotals
                        ELSE [printed |-> TRUE,
                              cpu |-> SeqSum([i \in 1..Len(sorted) |-> sorted[i].cpu_percent]),
                              mem |-> SeqSum([i \in 1..Len(sorted) |-> sorted[i].memory_mb])]
    /\ pc' = "footer"
    /\ UNCHANGED <<mode, HAS_PSUTIL, system, error, interrupted, cpu_info, memory_info,
                   partitions_ok, mounts, disk_info, pid_max, ncpu, running, baseline, images, limit,
                   bytes_value, formatted>>

\* monitor_once, line 316, and its return: the locals are gone.
Footer ==
    /\ pc = "footer"
    /\ pc' = IF mode = "continuous" THEN "sleep" ELSE "done"
    /\ cpu_info' = <<>>
    /\ memory_info' = <<>>
    /\ disk_info' = <<>>
    /\ processes' = <<>>
    /\ top_processes' = <<>>
    /\ totals' = NoTotals
    /\ images' = <<>>
    /\ baseline' = <<>>
    /\ UNCHANGED <<mode, HAS_PSUTIL, system, error, interrupted,
                   partitions_ok, mounts, pid_max, ncpu, running, limit, bytes_value, formatted>>

\* monitor_continuous, lines 325-326
RefreshSleep ==
    /\ pc = "sleep"
    /\ pc' = "clear"
    /\ UNCHANGED <<mode, HAS_PSUTIL, system, error, interrupted, cpu_info, memory_info,
                   partitions_ok, mounts, disk_info, pid_max, ncpu, running, baseline, images, limit,
                   processes, top_processes, totals, bytes_value, formatted>>

\* The positions of an iteration (lines 323-326 and everything they call).
IterationPositions ==
    {"clear", "header", "cpu", "show_cpu", "memory", "show_memory", "disk", "show_disk",
     "first_pass", "sampling_wait", "second_pass", "show_processes", "footer", "sleep"}

\* A SIGINT arrives while the program is at a position where no bare except
\* is on the stack (inside a probe: before or after its try block).  The
\* KeyboardInterrupt is no Exception, so line 209 lets it pass.
Interrupt ==
    /\ pc \in IterationPositions
    /\ interrupted' = TRUE
    /\ Propagate("KeyboardInterrupt")
    /\ UNCHANGED <<mode, HAS_PSUTIL, system, cpu_info, memory_info,
                   partitions_ok, mounts, disk_info, pid_max, ncpu, running, baseline, images, limit,
                   processes, top_processes, totals, bytes_value, formatted>>

\* format_bytes called on its own
FormatBytes ==
    /\ pc = "format"
    /\ LET r == format_bytes(bytes_value)
       IN  IF r.raised = "none"
           THEN formatted' = r /\ pc' = "done" /\ error' = error
           ELSE formatted' = formatted /\ Propagate(r.raised)
    /\ UNCHANGED <<mode, HAS_PSUTIL, system, interrupted, cpu_info, memory_info,
                   partitions_ok, mounts, disk_info, pid_max, ncpu, running, baseline, images, limit,
                   processes, top_processes, totals, bytes_value>>

-----------------------------------------------------------------------------
(* Specifications *)

MonMaxPid == 1
MonMaxMounts == 1

\* The limbs byte counts are built from, and the byte counts of at most n limbs.
LimbValues == {0, 1, 512, 1023}

RECURSIVE ByteCounts(_)
ByteCounts(n) ==
    IF n = 0 THEN {<<>>}
    ELSE LET shorter == ByteCounts(n - 1)
         IN  shorter \cup { Append(b, d) : b \in {x \in shorter : Len(x) = n - 1}, d \in LimbValues }

\* The state of a fresh SystemMonitor (lines 23-25) before any method runs.
Fresh ==
    /\ error = "none"
    /\ interrupted = FALSE
    /\ cpu_info = <<>>
    /\ memory_info = <<>>
    /\ disk_info = <<>>
    /\ baseline = <<>>
    /\ images = <<>>
    /\ processes = <<>>
    /\ top_processes = <<>>
    /\ totals = NoTotals
    /\ formatted = [raised |-> "none", text |-> [whole |-> 0, tenth |-> 0], unit |-> "B"]

\* python system_monitor.py [--continuous]
Init ==
    /\ Fresh
    /\ mode \in {"once", "continuous"}
    /\ pc = "main"
    /\ HAS_PSUTIL \in BOOLEAN
    /\ system \in {"Windows", "Linux"}
    /\ pid_max = MonMaxPid
    /\ ncpu = 2
    /\ running \in SUBSET (1..MonMaxPid)
    /\ partitions_ok \in BOOLEAN
    /\ mounts \in MountLists(MonMaxMounts)
    /\ limit = MonitorLimit
    /\ bytes_value = <<>>

Next ==
    \/ Main \/ ClearScreen \/ DisplayHeader
    \/ GetCpuInfo \/ DisplayCpuInfo
    \/ GetMemoryInfo \/ DisplayMemoryInfo
    \/ GetDiskInfo \/ DisplayDiskInfo
    \/ FirstPass \/ SamplingWait \/ SecondPass \/ DisplayProcesses
    \/ Footer \/ RefreshSleep \/ Interrupt

Spec == Init /\ [][Next]_vars

\* get_top_processes(limit) followed by display_processes, as lines 313-314
\* do, for any limit.
InitProc ==
    /\ Fresh
    /\ mode = "get_top_processes"
    /\ pc = "first_pass"
    /\ HAS_PSUTIL \in BOOLEAN
    /\ system = "Linux"
    /\ pid_max = MaxPid
    /\ ncpu = 2
    /\ running \in SUBSET (1..MaxPid)
    /\ partitions_ok = TRUE
    /\ mounts = <<>>
    /\ limit \in 0..MaxLimit
    /\ bytes_value = <<>>

NextProc == FirstPass \/ SamplingWait \/ SecondPass \/ DisplayProcesses \/ Footer

SpecProc == InitProc /\ [][NextProc]_vars

\* get_disk_info() on its own
InitDisk ==
    /\ Fresh
    /\ mode = "get_disk_info"
    /\ pc = "disk"
    /\ HAS_PSUTIL \in BOOLEAN
    /\ system \in {"Windows", "Linux"}
    /\ pid_max = MonMaxPid
    /\ ncpu = 2
    /\ running = {}
    /\ partitions_ok \in BOOLEAN
    /\ mounts \in MountLists(MaxMounts)
    /\ limit = MonitorLimit
    /\ bytes_value = <<>>

NextDisk == GetDiskInfo

SpecDisk == InitDisk /\ [][NextDisk]_vars

\* format_bytes(bytes_value) on its own
InitFmt ==
    /\ Fresh
    /\ mode = "format_bytes"
    /\ pc = "format"
    /\ HAS_PSUTIL = TRUE
    /\ system = "Linux"
    /\ pid_max = MonMaxPid
    /\ ncpu = 2
    /\ running = {}
    /\ partitions_ok = TRUE
    /\ mounts = <<>>
    /\ limit = MonitorLimit
    /\ bytes_value \in ByteCounts(MaxLimbs) \cup {FloatLimit}

NextFmt == FormatBytes

SpecFmt == InitFmt /\ [][NextFmt]_vars

-----------------------------------------------------------------------------
(* Properties *)

\* get_top_processes has returned and its result is still in scope.
Collected == pc \in {"show_processes", "footer"}

\* The pids the two passes enumerated.
Snapshot0 == DOMAIN baseline
Snapshot1 == DOMAIN images

\* The list get_top_processes holds at line 205, before it sorts and
\* truncates: every process that passed the filter of line 192.
FilteredList ==
    SecondPassLoop(ProcessIter(Snapshot1), images, baseline, ncpu, <<>>).processes

CpuOf(list) == [i \in 1..Len(list) |-> list[i].cpu_percent]
MemOf(list) == [i \in 1..Len(list) |-> list[i].memory_mb]

\* C1: the totals printed for a capture are the sums of cpu_percent and
\* memory_mb over every process that passed the filter, whatever limit is.
C1_TotalsCoverFilteredSet ==
    (pc = "footer" /\ totals.printed) =>
        /\ totals.cpu = SeqSum(CpuOf(FilteredList))
        /\ totals.mem = SeqSum(MemOf(FilteredList))

\* list is in descending order of cpu_percent, equal values in ascending
\* order of pid.
IsRanked(list) ==
    \A i, j \in 1..Len(list) :
        i < j => \/ list[i].cpu_percent > list[j].cpu_percent
                 \/ /\ list[i].cpu_percent = list[j].cpu_percent
                    /\ list[i].pid < list[j].pid

\* C2: the ranked list, as returned by get_top_processes and as shown by
\* display_processes, is sorted by cpu_percent descending, and entries with
\* equal cpu_percent are in ascending pid order.
C2_RankedByCpuThenPid == IsRanked(processes) /\ IsRanked(top_processes)

\* Three processes were ranked, the sort moved a later pid to the front and
\* two entries tie.
C2_Witness ==
    /\ pc = "footer"
    /\ Len(top_processes) = 3
    /\ top_processes[1].pid > top_processes[2].pid
    /\ top_processes[1].cpu_percent > top_processes[2].cpu_percent
    /\ top_processes[2].cpu_percent = top_processes[3].cpu_percent

\* The name with its executable suffix stripped, both compared without
\* regard to letter case.
NormalizedName(name) ==
    IF endswith(lower(name), ExeSuffix)
    THEN SubSeq(lower(name), 1, Len(name) - Len(ExeSuffix))
    ELSE lower(name)

\* C3: no process whose name, suffix stripped and letter case ignored, is
\* one of the system names is in the ranked list (the totals are summed
\* over that list).
C3_NoSystemProcessRanked ==
    Collected =>
        \A i \in 1..Len(processes) :
            NormalizedName(images[processes[i].pid].name) \notin SystemNames

\* C4: every pid in the result was enumerated by both passes.
C4_OnlyPidsOfBothPasses ==
    Collected =>
        \A i \in 1..Len(processes) : processes[i].pid \in Snapshot0 \cap Snapshot1

\* The processes the second pass could read in full and that are no system
\* process.
FilteredPids ==
    { p \in Snapshot1 : /\ ~images[p].gone
                         /\ images[p].denied = {}
                         /\ ~IsSystemProcess(StripExe(images[p].name)) }

\* C5: the ranked list has min(limit, size of the filtered set) entries.
C5_LengthIsMinOfLimitAndFiltered ==
    pc = "show_processes" => Len(processes) = Min(limit, Cardinality(FilteredPids))

\* C10: a process that cannot be read is skipped on its own; when limit
\* leaves room for all of them, every process that was read is in the list.
C10_UnreadableSkippedAlone ==
    (pc = "show_processes" /\ Cardinality(FilteredPids) <= limit) =>
        \A p \in FilteredPids : \E i \in 1..Len(processes) : processes[i].pid = p

\* C6: a single-shot run that no signal interrupts never ends in an
\* unhandled error, and the CPU result it renders has every key the
\* renderer reads.
C6_CaptureCompletes ==
    (mode = "once" /\ ~interrupted) =>
        /\ pc # "crashed"
        /\ pc = "show_cpu" => CpuKeysRead \subseteq DOMAIN cpu_info

\* The entries of the mounts whose usage query succeeded, in order.
RECURSIVE SucceededEntries(_, _)
SucceededEntries(mnts, i) ==
    IF i > Len(mnts) THEN <<>>
    ELSE IF mnts[i].query = "ok"
         THEN <<Devices[i]>> \o SucceededEntries(mnts, i + 1)
    ELSE SucceededEntries(mnts, i + 1)

\* The devices of the entries of list that belong to a listed mount.
MountEntries(list) ==
    LET listed(d) == \E i \in 1..Len(mounts) : Devices[i] = d
    IN  SelectSeq([i \in 1..Len(list) |-> list[i].device], listed)

\* C7: when the mounts could be listed and no signal arrived, the disk
\* result has exactly one entry for each mount whose usage query
\* succeeded, in enumeration order, and none for a mount whose query failed.
C7_OneEntryPerSucceededMount ==
    (mode = "get_disk_info" /\ pc = "done" /\ HAS_PSUTIL /\ partitions_ok /\ ~interrupted) =>
        MountEntries(disk_info) = SucceededEntries(mounts, 1)

\* C8: in repeating mode, once a signal has been delivered during an
\* iteration the program has stopped through the handler of lines 327-328.
C8_InterruptStopsLoop ==
    (mode = "continuous" /\ interrupted) => pc = "stopped"

AllUnits == <<"B", "KB", "MB", "GB", "TB", "PB">>

UnitIndex(u) == CHOOSE k \in 0..5 : AllUnits[k + 1] = u

\* The number of limbs of b up to its highest non-zero one: b < 1024^n
\* exactly when Significant(b) <= n.
Significant(b) ==
    IF \A j \in 1..Len(b) : b[j] = 0 THEN 0
    ELSE CHOOSE n \in 1..Len(b) : b[n] # 0 /\ \A j \in (n + 1)..Len(b) : b[j] = 0

\* The smallest k in 0..5 with b / 1024^k < 1024, or 5 when there is none.
SmallestUnit(b) ==
    IF \E k \in 0..5 : Significant(b) <= k + 1
    THEN CHOOSE k \in 0..5 : /\ Significant(b) <= k + 1
                             /\ \A m \in 0..(k - 1) : Significant(b) > m + 1
    ELSE 5

\* Byte counts at and just below each unit's threshold.
Thresholds ==
    { <<>>, <<1023>>, <<0, 1>>, <<1023, 1023>>, <<0, 0, 1>>, <<1023, 1023, 1023>>,
      <<0, 0, 0, 1>>, <<0, 0, 0, 0, 1>>, <<0, 0, 0, 0, 0, 1>>, <<0, 0, 0, 0, 0, 0, 1>> }

\* format_bytes has returned the label of the smallest unit that fits, and
\* no byte count at or below its argument gets a larger unit.
LabelledWithSmallestFit ==
    /\ pc = "done"
    /\ formatted.unit = AllUnits[SmallestUnit(bytes_value) + 1]
    /\ \A c \in Thresholds :
          LimbsLeq(c, bytes_value) =>
              UnitIndex(format_bytes(c).unit) <= UnitIndex(formatted.unit)

BelowFloatLimit(b) == Len(b) < Len(FloatLimit) \/ ~LimbsLeq(FloatLimit, b)

====
